---- MODULE Spec2Model ----
(***************************************************************************)
(* Model of the multiprocessor package: Task, Job and Multiprocessor.      *)
(*                                                                         *)
(* A Task is a deferred call with a return-value slot and an exception     *)
(* slot.  A Job is a list of normal tasks, a list of forgiveness tasks and *)
(* a list of exception classes to catch.  Multiprocessor.run() hands every *)
(* job of its job source to the static method _wrapper, either in a for    *)
(* loop of the calling process or through multiprocessing.Pool.starmap.    *)
(*                                                                         *)
(* A callable is modelled by what it does when called: it returns a value  *)
(* or raises an exception of some class.  Values and exception classes are *)
(* strings; "None" is Python's None.                                       *)
(***************************************************************************)
EXTENDS Integers, Sequences, FiniteSets, TLC

\* ------------------------------------------------------------------ bounds
MaxJobs  == 3      \* longest job source
MaxCpus  == 2      \* largest value multiprocessing.cpu_count() may give
MaxNormalTasks      == 2   \* longest normal task list of a generated job
MaxForgivenessTasks == 2   \* longest forgiveness task list of a generated job
MaxDeclared   == 3         \* longest list of declared exceptions of a job being built
MaxCollection == 2         \* largest container given to append_exception_to_catch

None == "None"

\* ------------------------------------------------- values and exceptions
\* Instances of the Results class, and return values of other types.
ResultsValues == {"Results1", "Results2", "Results3"}
PlainValues   == {"int2", "int6", None}

isinstance_Results(value) == value \in ResultsValues

\* The built-in exception classes used by the callables of the model, each
\* with its direct base class.  Only subclasses of Exception are raised by
\* callables.
ExceptionClasses ==
    {"BaseException", "Exception", "ArithmeticError", "ZeroDivisionError",
     "OverflowError", "LookupError", "KeyError", "NameError",
     "UnboundLocalError"}

BaseClass(cls) ==
    CASE cls = "ZeroDivisionError" -> "ArithmeticError"
      [] cls = "OverflowError"     -> "ArithmeticError"
      [] cls = "ArithmeticError"   -> "Exception"
      [] cls = "KeyError"          -> "LookupError"
      [] cls = "LookupError"       -> "Exception"
      [] cls = "UnboundLocalError" -> "NameError"
      [] cls = "NameError"         -> "Exception"
      [] cls = "Exception"         -> "BaseException"
      [] OTHER                     -> "object"

RECURSIVE issubclass(_, _)
issubclass(cls, base) ==
    IF cls = base THEN TRUE
    ELSE IF cls = "object" THEN FALSE
    ELSE issubclass(BaseClass(cls), base)

\* ------------------------------------------------------------------- Task
\* What a callable does when it is called with the task's arguments.
Returns(value) == [act |-> "return", val |-> value]
Raises(cls)    == [act |-> "raise",  val |-> cls]

\* Task.__init__: both slots start as None.
Task(callable_) ==
    [callable_ |-> callable_, return_value |-> None, exception_raised |-> None]

\* Task.return_value setter.
set_return_value(task, value) == [task EXCEPT !.return_value = value]

\* Task.exception_raised setter: the value is raised and caught again under
\* its own class, and the caught exception is stored.
set_exception_raised(task, value) == [task EXCEPT !.exception_raised = value]

\* -------------------------------------------------------------------- Job
\* Job.__init__: three empty lists, no ongoing task (0 stands for None,
\* k > 0 for the k-th normal task).
NewJob ==
    [tasks_to_do |-> <<>>, exceptions_to_catch |-> <<>>,
     tasks_to_do_if_shit_happens |-> <<>>, ongoing_task |-> 0]

append_normal_task(job, callable_) ==
    [job EXCEPT !.tasks_to_do = Append(@, Task(callable_))]

append_forgiveness_task(job, callable_) ==
    [job EXCEPT !.tasks_to_do_if_shit_happens = Append(@, Task(callable_))]

\* A Python value that may be the argument of append_exception_to_catch or
\* an element of it: the class called name, or an instance of that class.
ClassObject(name) == [isclass |-> TRUE,  name |-> name]
InstanceOf(name)  == [isclass |-> FALSE, name |-> name]

\* The argument of append_exception_to_catch: its type and what it holds,
\* in iteration order.  A value that is not a container holds itself.
Single(value)           == [type |-> "single", items |-> <<value>>]
Collection(type, items) == [type |-> type, items |-> items]

\* The first element from the k-th on that stops all(issubclass(e,
\* BaseException) for e in exception), 0 when there is none: a value that is
\* not a class makes issubclass raise, a class that does not derive from
\* BaseException makes all() false.
RECURSIVE FirstOffender(_, _)
FirstOffender(items, k) ==
    IF k > Len(items) THEN 0
    ELSE IF ~items[k].isclass \/ ~issubclass(items[k].name, "BaseException") THEN k
    ELSE FirstOffender(items, k + 1)

ClassNames(items) == [i \in 1..Len(items) |-> items[i].name]

\* An append_exception_to_catch that stores what it is given.
Job_append_exception_to_catch_unchecked(job, exception) ==
    [job    |-> [job EXCEPT !.exceptions_to_catch = @ \o ClassNames(exception.items)],
     raised |-> None]

\* Job.append_exception_to_catch: the job after the call and the exception
\* the call raised, None when it returned.
Job_append_exception_to_catch(job, exception) ==
    IF exception.type \in {"list", "tuple", "set", "frozenset"}
    THEN IF FirstOffender(exception.items, 1) # 0
         THEN [job |-> job, raised |-> "TypeError"]
         ELSE [job    |-> [job EXCEPT !.exceptions_to_catch = @ \o ClassNames(exception.items)],
               raised |-> None]
    ELSE IF exception.type # "single" \/ ~exception.items[1].isclass
    THEN [job |-> job, raised |-> "TypeError"]
    ELSE IF issubclass(exception.items[1].name, "BaseException")
    THEN [job    |-> [job EXCEPT !.exceptions_to_catch = Append(@, exception.items[1].name)],
          raised |-> None]
    ELSE [job |-> job, raised |-> None]

\* Job.append_exception_to_catch for a single class.
append_exception_to_catch(job, exception) ==
    Job_append_exception_to_catch(job, Single(ClassObject(exception))).job

clear_exceptions(job) == [job EXCEPT !.exceptions_to_catch = <<>>]

\* A property that gives the registered classes as they are, also when there
\* are none.
exceptions_to_catch_registered(job) == job.exceptions_to_catch

\* Property Job.exceptions_to_catch: (BaseException,) when nothing is
\* registered.
exceptions_to_catch(job) ==
    IF Len(job.exceptions_to_catch) = 0
    THEN <<"BaseException">>
    ELSE job.exceptions_to_catch

\* An except clause that matches every exception.
ExceptMatches_any(classes, error) == TRUE

\* The test of "except job.exceptions_to_catch as error": the raised
\* exception is an instance of one of the classes of the tuple.
ExceptMatches(classes, error) ==
    \E i \in 1..Len(classes) : issubclass(error, classes[i])

\* An execution of a job is the job object together with the list of the
\* callables invoked so far (<<"normal", k>> or <<"forgiveness", k>>) and the
\* exception that is propagating, if any.
Execution(job, calls, raised) == [job |-> job, calls |-> calls, raised |-> raised]

\* Job.run, from the k-th normal task on.
RECURSIVE Job_run_from(_, _, _)
Job_run_from(job, calls, k) ==
    IF k > Len(job.tasks_to_do) THEN Execution(job, calls, None)
    ELSE
        LET task    == job.tasks_to_do[k]
            ongoing == [job EXCEPT !.ongoing_task = k]
            called  == Append(calls, <<"normal", k>>)
        IN  IF task.callable_.act = "raise"
            THEN Execution(ongoing, called, task.callable_.val)
            ELSE Job_run_from(
                    [ongoing EXCEPT !.tasks_to_do[k] =
                        set_return_value(@, task.callable_.val)],
                    called, k + 1)

\* A run() that catches the failure of a task and returns normally.
Job_run_swallow(job, calls) == [Job_run_from(job, calls, 1) EXCEPT !.raised = None]

\* Job.run.
Job_run(job, calls) == Job_run_from(job, calls, 1)

\* A forgiveness loop that swallows the failure of a forgiveness task and
\* goes on with the next one.
RECURSIVE forgiveness_from_swallow(_, _, _)
forgiveness_from_swallow(job, calls, k) ==
    IF k > Len(job.tasks_to_do_if_shit_happens) THEN Execution(job, calls, None)
    ELSE
        LET task   == job.tasks_to_do_if_shit_happens[k]
            called == Append(calls, <<"forgiveness", k>>)
        IN  IF task.callable_.act = "raise"
            THEN forgiveness_from_swallow(job, called, k + 1)
            ELSE forgiveness_from_swallow(
                    [job EXCEPT !.tasks_to_do_if_shit_happens[k] =
                        set_return_value(@, task.callable_.val)],
                    called, k + 1)

\* The loop of Job.ask_forgiveness, from the k-th forgiveness task on.
RECURSIVE forgiveness_from(_, _, _)
forgiveness_from(job, calls, k) ==
    IF k > Len(job.tasks_to_do_if_shit_happens) THEN Execution(job, calls, None)
    ELSE
        LET task   == job.tasks_to_do_if_shit_happens[k]
            called == Append(calls, <<"forgiveness", k>>)
        IN  IF task.callable_.act = "raise"
            THEN Execution(job, called, task.callable_.val)
            ELSE forgiveness_from(
                    [job EXCEPT !.tasks_to_do_if_shit_happens[k] =
                        set_return_value(@, task.callable_.val)],
                    called, k + 1)

\* An ask_forgiveness that stores the exception on the last normal task.
ask_forgiveness_last_task(job, calls, exception_raised) ==
    forgiveness_from(
        [job EXCEPT !.tasks_to_do[Len(job.tasks_to_do)] =
            set_exception_raised(@, exception_raised)],
        calls, 1)

\* Job.ask_forgiveness: store the exception on the ongoing task, then run the
\* forgiveness tasks.
ask_forgiveness(job, calls, exception_raised) ==
    forgiveness_from(
        [job EXCEPT !.tasks_to_do[job.ongoing_task] =
            set_exception_raised(@, exception_raised)],
        calls, 1)

\* ------------------------------------------------- Multiprocessor._wrapper
\* The first Results instance among the return values of a task list,
\* None when there is none.
RECURSIVE FirstResults(_, _)
FirstResults(tasks, k) ==
    IF k > Len(tasks) THEN None
    ELSE IF isinstance_Results(tasks[k].return_value) THEN tasks[k].return_value
    ELSE FirstResults(tasks, k + 1)

\* A scan that looks at the forgiveness tasks before the normal tasks.
ScanResults_forgiveness_first(job) ==
    LET forgiveness == FirstResults(job.tasks_to_do_if_shit_happens, 1)
    IN  IF forgiveness # None THEN forgiveness
        ELSE FirstResults(job.tasks_to_do, 1)

\* A scan that falls back on the return value of the last normal task, as
\* __set_up_results does.
ScanResults_last_value(job) ==
    LET normal == FirstResults(job.tasks_to_do, 1)
        other  == FirstResults(job.tasks_to_do_if_shit_happens, 1)
    IN  IF normal # None THEN normal
        ELSE IF other # None THEN other
        ELSE IF Len(job.tasks_to_do) = 0 THEN None
        ELSE job.tasks_to_do[Len(job.tasks_to_do)].return_value

\* The two scanning loops at the end of _wrapper.
ScanResults(job) ==
    LET normal == FirstResults(job.tasks_to_do, 1)
    IN  IF normal # None THEN normal
        ELSE FirstResults(job.tasks_to_do_if_shit_happens, 1)

\* A try/except that resumes the normal tasks after the forgiveness tasks.
TryRun_resume(job) ==
    LET ran == Job_run(job, <<>>)
    IN  IF ran.raised = None THEN ran
        ELSE IF ExceptMatches(exceptions_to_catch(ran.job), ran.raised)
        THEN LET forgiven == ask_forgiveness(ran.job, ran.calls, ran.raised)
             IN  IF forgiven.raised # None THEN forgiven
                 ELSE Job_run_from(forgiven.job, forgiven.calls, ran.job.ongoing_task + 1)
        ELSE ran

\* A try statement that runs the forgiveness tasks after a run() that
\* raised nothing as well.
TryRun_always(job) ==
    LET ran == Job_run(job, <<>>)
    IN  IF ran.raised = None THEN forgiveness_from(ran.job, ran.calls, 1)
        ELSE IF ExceptMatches(exceptions_to_catch(ran.job), ran.raised)
        THEN ask_forgiveness(ran.job, ran.calls, ran.raised)
        ELSE ran

\* A try/except that lets the failure through after the forgiveness tasks.
TryRun_reraise(job) ==
    LET ran == Job_run(job, <<>>)
    IN  IF ran.raised = None THEN ran
        ELSE IF ExceptMatches(exceptions_to_catch(ran.job), ran.raised)
        THEN LET forgiven == ask_forgiveness(ran.job, ran.calls, ran.raised)
             IN  IF forgiven.raised # None THEN forgiven
                 ELSE [forgiven EXCEPT !.raised = ran.raised]
        ELSE ran

\* The try/except of _wrapper: the execution of the job when the try
\* statement is left.
TryRun(job) ==
    LET ran == Job_run(job, <<>>)
    IN  IF ran.raised = None THEN ran
        ELSE IF ExceptMatches(exceptions_to_catch(ran.job), ran.raised)
        THEN ask_forgiveness(ran.job, ran.calls, ran.raised)
        ELSE ran

\* A _wrapper that empties the slots of the job before it runs it.
wrapper_reset(job) ==
    LET fresh == [job EXCEPT
                    !.tasks_to_do = [k \in 1..Len(@) |-> Task(@[k].callable_)],
                    !.tasks_to_do_if_shit_happens = [k \in 1..Len(@) |-> Task(@[k].callable_)]]
        tried == TryRun(fresh)
    IN  [job     |-> tried.job,
         calls   |-> tried.calls,
         raised  |-> tried.raised,
         outcome |-> IF tried.raised = None THEN ScanResults(tried.job) ELSE None]

\* _wrapper(job): the job object as the call leaves it, the callables it
\* invoked, the exception that leaves the call (None when it returns) and the
\* value it returns.
wrapper(job) ==
    LET tried == TryRun(job)
    IN  [job     |-> tried.job,
         calls   |-> tried.calls,
         raised  |-> tried.raised,
         outcome |-> IF tried.raised = None THEN ScanResults(tried.job) ELSE None]

\* ------------------------------------------------------------- job source
\* The jobs a caller may put in the job source, each built with the Job API.
\* Normal tasks, forgiveness tasks and exceptions are appended in order.
RECURSIVE BuildNormal(_, _, _)
BuildNormal(job, callables, k) ==
    IF k > Len(callables) THEN job
    ELSE BuildNormal(append_normal_task(job, callables[k]), callables, k + 1)

RECURSIVE BuildForgiveness(_, _, _)
BuildForgiveness(job, callables, k) ==
    IF k > Len(callables) THEN job
    ELSE BuildForgiveness(append_forgiveness_task(job, callables[k]), callables, k + 1)

RECURSIVE BuildExceptions(_, _, _)
BuildExceptions(job, classes, k) ==
    IF k > Len(classes) THEN job
    ELSE BuildExceptions(append_exception_to_catch(job, classes[k]), classes, k + 1)

MakeJob(normal, classes, forgiveness) ==
    BuildForgiveness(
        BuildExceptions(BuildNormal(NewJob, normal, 1), classes, 1),
        forgiveness, 1)

JobPool ==
    { \* every task succeeds, one returns a Results
      MakeJob(<<Returns("int2"), Returns("Results2")>>,
              <<"ZeroDivisionError">>, <<Returns("Results3")>>),
      \* every task succeeds, no Results (add and mul of the Job docstring)
      MakeJob(<<Returns("int2"), Returns("int6")>>, <<>>, <<Returns("Results1")>>),
      \* declared failure of the second task, forgiveness yields a Results
      MakeJob(<<Returns("int2"), Raises("ZeroDivisionError"), Returns("Results1")>>,
              <<"ZeroDivisionError">>, <<Returns(None), Returns("Results3")>>),
      \* failure of a class that is not declared
      MakeJob(<<Returns("Results1"), Raises("KeyError"), Returns("int6")>>,
              <<"ZeroDivisionError", "OverflowError">>, <<Returns("Results3")>>),
      \* declared failure, then a forgiveness task fails
      MakeJob(<<Raises("OverflowError")>>, <<"OverflowError", "ZeroDivisionError">>,
              <<Returns("int2"), Raises("ZeroDivisionError"), Returns("Results1")>>),
      \* a class was declared and cleared again: any failure is caught
      BuildForgiveness(
          clear_exceptions(
              BuildExceptions(
                  BuildNormal(NewJob, <<Raises("KeyError"), Returns("Results2")>>, 1),
                  <<"ZeroDivisionError">>, 1)),
          <<Returns("Results1")>>, 1) }

\* Generated jobs: every normal list of 1..MaxNormalTasks callables, every
\* forgiveness list of 0..MaxForgivenessTasks callables and every choice of
\* declared exception classes below.
Callables ==
    {Returns("Results1"), Returns("Results2"), Returns("int2"),
     Raises("ZeroDivisionError"), Raises("KeyError")}

DeclaredChoices ==
    {<<>>, <<"ZeroDivisionError">>, <<"KeyError", "ArithmeticError">>, <<"LookupError">>}

CallableLists(lo, hi) == UNION {[1..n -> Callables] : n \in lo..hi}

GeneratedJobs ==
    {MakeJob(normal, classes, forgiveness) :
        normal \in CallableLists(1, MaxNormalTasks),
        classes \in DeclaredChoices,
        forgiveness \in CallableLists(0, MaxForgivenessTasks)}

\* The generated jobs, and the same jobs after clear_exceptions().
JobShapes == GeneratedJobs \cup {clear_exceptions(job) : job \in GeneratedJobs}

\* All job sources of n jobs.
Batches(n) == [1..n -> JobPool]

\* ------------------------------------------------------------------ state
VARIABLES
    call,                   \* the last call of the Job API on a job being built
    args,                   \* the arguments given to Multiprocessor(...)
    problems,               \* the lines of the TypeError the constructor raised
    parallelize,            \* Multiprocessor.__parallelize
    number_of_processes,    \* Multiprocessor.__number_of_processes
    cpus,                   \* what multiprocessing.cpu_count() gives
    batch,                  \* the jobs as the caller built them
    jobs,                   \* the Job objects of the job source, in the caller's process
    pc,                     \* "new" before the constructor, "invalid" when it raised,
                            \* then where run() is: "init", "loop", "starmap",
                            \* "returned", "raised"; for a direct call of Job.run:
                            \* "job", "job_returned", "job_raised"
    pulled,                 \* number of jobs taken from the job source
    results,                \* the local list of the sequential branch
    returned,               \* the tuple run() returned
    failure,                \* the exception that left run()
    pool,                   \* "none", "open" or "closed"
    processes,              \* the number of workers the pool was created with
    taskqueue,              \* chunks of the pool not yet taken by a worker
    worker,                 \* the worker processes of the pool
    mapres,                 \* the MapResult of the starmap call
    copies,                 \* the Job objects as they are in the worker processes
    calls,                  \* per job, the callables invoked so far
    exits,                  \* per job, how the call of _wrapper ended
    finished                \* chunks in the order their results arrived

vars == <<call, args, problems, parallelize, number_of_processes, cpus, batch, jobs, pc,
          pulled, results, returned, failure, pool, processes, taskqueue, worker,
          mapres, copies, calls, exits, finished>>

Workers == 1..MaxCpus

IdleWorker == [state |-> "idle", chunk |-> 0, out |-> <<>>, error |-> None]

NoMapResult == [value |-> <<>>, success |-> TRUE, error |-> None,
                number_left |-> 0, chunksize |-> 0]

\* How a call of _wrapper ended: not yet, by returning a value, or by
\* raising an exception.
Pending      == [how |-> "pending",  value |-> None]
Exit(r)      == IF r.raised = None THEN [how |-> "returned", value |-> r.outcome]
                ELSE [how |-> "raised", value |-> r.raised]

\* ------------------------------------------- Multiprocessor.__init__
\* The arguments of the constructor are Python values written as literals,
\* or as the name of their type for the job source and the extractor.
JobGeneratorArgs == {"tuple", "list", "generator", "int", "None"}
ExtractorArgs    == {"function", "class", "None", "'name'"}
ParallelizeArgs  == {"True", "False", "1", "None"}
ProcessesArgs    == {"-1", "0", "1", "True", "1.5", "None"}

\* type(value).__name__
TypeName(value) ==
    CASE value \in {"True", "False"} -> "bool"
      [] value \in {"-1", "0", "1"}  -> "int"
      [] value = "1.5"               -> "float"
      [] value = "None"              -> "NoneType"
      [] value = "'name'"            -> "str"
      [] OTHER                       -> value

\* hasattr(job_generator, '__iter__')
has_iter(value) == TypeName(value) \in {"tuple", "list", "generator"}

\* callable(extractor_function)
callable(value) == TypeName(value) \in {"function", "class"}

\* isinstance(value, bool); isinstance(value, int), bool being a subclass of
\* int.
isinstance_bool(value) == TypeName(value) = "bool"
isinstance_int(value)  == TypeName(value) \in {"int", "bool"}

\* The integer an int or a bool stands for.
IntValue(value) ==
    CASE value = "-1"    -> -1
      [] value = "0"     -> 0
      [] value = "1"     -> 1
      [] value = "True"  -> 1
      [] value = "False" -> 0

\* The literal of an attribute value.
BoolLiteral(b) == IF b THEN "True" ELSE "False"
IntLiteral(n)  == CASE n = -1 -> "-1" [] n = 0 -> "0" [] n = 1 -> "1"

\* The lines of the error message, one per kind of problem.
ProblemLine(about, got) == [about |-> about, got |-> got]

\* A constructor that stops at the first problem it finds.
Multiprocessor_init_first_problem(a) ==
    LET ok == /\ has_iter(a.job_generator)
              /\ isinstance_bool(a.parallelize)
              /\ isinstance_int(a.number_of_processes)
              /\ callable(a.extractor_function)
    IN  [ok |-> ok,
         problems |->
            IF ok THEN {}
            ELSE IF ~has_iter(a.job_generator)
            THEN {ProblemLine("job_generator", None)}
            ELSE IF ~isinstance_bool(a.parallelize)
            THEN {ProblemLine("parallelize", TypeName(a.parallelize))}
            ELSE IF ~isinstance_int(a.number_of_processes)
            THEN {ProblemLine("number_of_processes", TypeName(a.number_of_processes))}
            ELSE {ProblemLine("extractor_function", None)}]

\* Multiprocessor.__init__: the four checks; when one fails, the set of the
\* problems found, which becomes the message of one TypeError.
Multiprocessor_init(a) ==
    LET ok == /\ has_iter(a.job_generator)
              /\ isinstance_bool(a.parallelize)
              /\ isinstance_int(a.number_of_processes)
              /\ callable(a.extractor_function)
    IN  [ok |-> ok,
         problems |->
            IF ok THEN {}
            ELSE (IF ~has_iter(a.job_generator)
                  THEN {ProblemLine("job_generator", None)} ELSE {})
                 \cup (IF ~isinstance_bool(a.parallelize)
                       THEN {ProblemLine("parallelize", TypeName(a.parallelize))} ELSE {})
                 \cup (IF ~isinstance_int(a.number_of_processes)
                       THEN {ProblemLine("number_of_processes",
                                         TypeName(a.number_of_processes))} ELSE {})
                 \cup (IF ~callable(a.extractor_function)
                       THEN {ProblemLine("extractor_function", None)} ELSE {})]

\* No call of the Job API is recorded.
NoCall == [op |-> "none", arg |-> Collection("tuple", <<>>), raised |-> None, before |-> <<>>]

\* Nothing of run() has happened yet.
NotRun ==
    /\ call = NoCall
    /\ jobs = batch
    /\ pulled = 0
    /\ results = <<>>
    /\ returned = <<>>
    /\ failure = None
    /\ pool = "none"
    /\ processes = 0
    /\ taskqueue = <<>>
    /\ worker = [w \in Workers |-> IdleWorker]
    /\ mapres = NoMapResult
    /\ copies = <<>>
    /\ calls = [j \in 1..Len(batch) |-> <<>>]
    /\ exits = [j \in 1..Len(batch) |-> Pending]
    /\ finished = <<>>

\* The state after the constructor accepted its arguments and before run()
\* is called.
Constructed ==
    /\ args = [job_generator |-> "tuple", extractor_function |-> "function",
               parallelize |-> BoolLiteral(parallelize),
               number_of_processes |-> IntLiteral(number_of_processes)]
    /\ problems = {}
    /\ pc = "init"
    /\ NotRun

\* The values of number_of_processes given to the constructor: a negative
\* one, zero and a positive one.
ProcessCounts == {-1, 0, 1}

\* Job sources of up to MaxJobs jobs of the pool, in either mode.
Init ==
    /\ parallelize \in BOOLEAN
    /\ number_of_processes \in ProcessCounts
    /\ cpus \in 1..MaxCpus
    /\ \E n \in 0..MaxJobs : batch \in Batches(n)
    /\ Constructed

\* A job source of one generated job, in either mode, on one cpu.
InitJob ==
    /\ parallelize \in BOOLEAN
    /\ number_of_processes = 0
    /\ cpus = 1
    /\ batch \in [1..1 -> JobShapes]
    /\ Constructed

\* ------------------------------------------------- multiprocessing.Pool
\* Pool._map_async: the chunk size for n items and a pool of p workers.
ChunkSize(n, p) ==
    IF n = 0 THEN 0
    ELSE IF n % (p * 4) = 0 THEN n \div (p * 4) ELSE n \div (p * 4) + 1

\* Number of chunks of n items.
NumberOfChunks(n, chunksize) ==
    IF chunksize = 0 THEN 0
    ELSE IF n % chunksize = 0 THEN n \div chunksize ELSE n \div chunksize + 1

\* Pool._get_tasks: chunk c (counted from 1) holds the items
\* (c-1)*chunksize+1 .. c*chunksize, as far as they exist.
Chunk(c, n, chunksize) ==
    LET first == (c - 1) * chunksize + 1
        last  == IF c * chunksize < n THEN c * chunksize ELSE n
    IN  [i \in 1..(last - first + 1) |-> first + i - 1]

\* A MapResult that stores a successful chunk at the place of its arrival
\* instead of its own place.
MapResult_set_arrival(mr, c, success, out, error) ==
    LET left    == mr.number_left - 1
        arrived == NumberOfChunks(Len(mr.value), mr.chunksize) - mr.number_left
    IN  IF success /\ mr.success
        THEN [mr EXCEPT !.number_left = left,
                        !.value = [i \in 1..Len(@) |->
                                      IF /\ i > arrived * mr.chunksize
                                         /\ i <= arrived * mr.chunksize + Len(out)
                                      THEN out[i - arrived * mr.chunksize]
                                      ELSE @[i]]]
        ELSE IF ~success /\ mr.success
        THEN [mr EXCEPT !.number_left = left, !.success = FALSE, !.error = error]
        ELSE [mr EXCEPT !.number_left = left]

\* A MapResult that drops the failure of a chunk.
MapResult_set_drop_failure(mr, c, success, out, error) ==
    LET left == mr.number_left - 1
    IN  IF success /\ mr.success
        THEN [mr EXCEPT !.number_left = left,
                        !.value = [i \in 1..Len(@) |->
                                      IF /\ i > (c - 1) * mr.chunksize
                                         /\ i <= (c - 1) * mr.chunksize + Len(out)
                                      THEN out[i - (c - 1) * mr.chunksize]
                                      ELSE @[i]]]
        ELSE [mr EXCEPT !.number_left = left]

\* MapResult._set(i, (success, result)): a successful chunk is stored at its
\* own place of the value list as long as no chunk failed; only the first
\* failure that arrives is kept.
MapResult_set(mr, c, success, out, error) ==
    LET left == mr.number_left - 1
    IN  IF success /\ mr.success
        THEN [mr EXCEPT !.number_left = left,
                        !.value = [i \in 1..Len(@) |->
                                      IF /\ i > (c - 1) * mr.chunksize
                                         /\ i <= (c - 1) * mr.chunksize + Len(out)
                                      THEN out[i - (c - 1) * mr.chunksize]
                                      ELSE @[i]]]
        ELSE IF ~success /\ mr.success
        THEN [mr EXCEPT !.number_left = left, !.success = FALSE, !.error = error]
        ELSE [mr EXCEPT !.number_left = left]

\* ------------------------------------------------------ Multiprocessor.run
\* The call of run().  Sequential branch: the empty results list.  Parallel
\* branch: the local number_of_processes is bound only when the attribute is
\* not positive; the job source is traversed; Pool(number_of_processes) then
\* reads the local, which raises UnboundLocalError when it is not bound;
\* otherwise the pool is created and starmap submits the chunks.
LocalIsBound(nproc) == nproc <= 0

Call ==
    /\ pc = "init"
    /\ IF ~parallelize
       THEN /\ pc' = "loop"
            /\ results' = <<>>
            /\ UNCHANGED <<pulled, failure, pool, processes, taskqueue, worker, mapres, copies>>
       ELSE /\ pulled' = Len(jobs)
            /\ IF ~LocalIsBound(number_of_processes)
               THEN /\ pc' = "raised"
                    /\ failure' = "UnboundLocalError"
                    /\ UNCHANGED <<pool, processes, taskqueue, worker, mapres, copies>>
               ELSE LET n         == Len(jobs)
                        chunksize == ChunkSize(n, cpus)
                        chunks    == NumberOfChunks(n, chunksize)
                    IN  /\ pc' = "starmap"
                        /\ pool' = "open"
                        /\ processes' = cpus
                        /\ copies' = jobs
                        /\ taskqueue' = [c \in 1..chunks |->
                                            [id |-> c, items |-> Chunk(c, n, chunksize)]]
                        /\ mapres' = [value |-> [i \in 1..n |-> None],
                                      success |-> TRUE, error |-> None,
                                      number_left |-> chunks, chunksize |-> chunksize]
                        /\ UNCHANGED <<failure, worker>>
            /\ UNCHANGED results
    /\ UNCHANGED <<call, args, problems, parallelize, number_of_processes, cpus, batch, jobs, returned,
                   calls, exits, finished>>

\* A for loop that stores None for a job whose _wrapper call raised and goes
\* on with the next job.
SeqIterate_swallow ==
    /\ pc = "loop"
    /\ pulled < Len(jobs)
    /\ LET j == pulled + 1
           r == wrapper(jobs[j])
       IN  /\ pulled' = j
           /\ jobs' = [jobs EXCEPT ![j] = r.job]
           /\ calls' = [calls EXCEPT ![j] = @ \o r.calls]
           /\ exits' = [exits EXCEPT ![j] = Exit(r)]
           /\ results' = Append(results, r.outcome)
           /\ UNCHANGED <<pc, failure>>
    /\ UNCHANGED <<call, args, problems, parallelize, number_of_processes, cpus, batch, returned, pool, processes,
                   taskqueue, worker, mapres, copies, finished>>

\* One iteration of the for loop of the sequential branch: the next job is
\* taken from the job source and _wrapper runs on it in the caller's process.
\* An exception leaving _wrapper leaves run().
SeqIterate ==
    /\ pc = "loop"
    /\ pulled < Len(jobs)
    /\ LET j == pulled + 1
           r == wrapper(jobs[j])
       IN  /\ pulled' = j
           /\ jobs' = [jobs EXCEPT ![j] = r.job]
           /\ calls' = [calls EXCEPT ![j] = @ \o r.calls]
           /\ exits' = [exits EXCEPT ![j] = Exit(r)]
           /\ IF r.raised = None
              THEN /\ results' = Append(results, r.outcome)
                   /\ UNCHANGED <<pc, failure>>
              ELSE /\ pc' = "raised"
                   /\ failure' = r.raised
                   /\ UNCHANGED results
    /\ UNCHANGED <<call, args, problems, parallelize, number_of_processes, cpus, batch, returned, pool, processes,
                   taskqueue, worker, mapres, copies, finished>>

\* The job source is exhausted: return tuple(results).
SeqReturn ==
    /\ pc = "loop"
    /\ pulled = Len(jobs)
    /\ pc' = "returned"
    /\ returned' = results
    /\ UNCHANGED <<call, args, problems, parallelize, number_of_processes, cpus, batch, jobs, pulled, results,
                   failure, pool, processes, taskqueue, worker, mapres, copies, calls, exits, finished>>

\* starmapstar in a worker: _wrapper runs on the jobs of a chunk one after
\* the other, each on the worker's copy of the job; the outcomes are
\* collected in a list; an exception leaving _wrapper ends the chunk.
RECURSIVE starmapstar(_, _, _)
starmapstar(items, k, st) ==
    IF k > Len(items) \/ st.error # None THEN st
    ELSE LET j == items[k]
             r == wrapper(st.copies[j])
         IN  starmapstar(items, k + 1,
                [copies |-> [st.copies EXCEPT ![j] = r.job],
                 calls  |-> [st.calls EXCEPT ![j] = @ \o r.calls],
                 exits  |-> [st.exits EXCEPT ![j] = Exit(r)],
                 out    |-> IF r.raised = None THEN Append(st.out, r.outcome) ELSE st.out,
                 error  |-> r.raised])

\* A worker that runs the chunk on the caller's Job objects, as a thread
\* sharing the caller's memory would.
WorkerRun_shared(w) ==
    /\ pc = "starmap"
    /\ w <= processes
    /\ worker[w].state = "idle"
    /\ taskqueue # <<>>
    /\ LET chunk == Head(taskqueue)
           st    == starmapstar(chunk.items, 1,
                       [copies |-> copies, calls |-> calls, exits |-> exits,
                        out |-> <<>>, error |-> None])
       IN  /\ copies' = st.copies
           /\ jobs' = st.copies
           /\ calls' = st.calls
           /\ exits' = st.exits
           /\ worker' = [worker EXCEPT ![w] =
                           [state |-> "busy", chunk |-> chunk.id,
                            out |-> st.out, error |-> st.error]]
    /\ taskqueue' = Tail(taskqueue)
    /\ UNCHANGED <<call, args, problems, parallelize, number_of_processes, cpus, batch, pc, pulled,
                   results, returned, failure, pool, processes, mapres, finished>>

\* A worker of the pool takes the next chunk from the task queue and runs it.
WorkerRun(w) ==
    /\ pc = "starmap"
    /\ w <= processes
    /\ worker[w].state = "idle"
    /\ taskqueue # <<>>
    /\ LET chunk == Head(taskqueue)
           st    == starmapstar(chunk.items, 1,
                       [copies |-> copies, calls |-> calls, exits |-> exits,
                        out |-> <<>>, error |-> None])
       IN  /\ copies' = st.copies
           /\ calls' = st.calls
           /\ exits' = st.exits
           /\ worker' = [worker EXCEPT ![w] =
                           [state |-> "busy", chunk |-> chunk.id,
                            out |-> st.out, error |-> st.error]]
    /\ taskqueue' = Tail(taskqueue)
    /\ UNCHANGED <<call, args, problems, parallelize, number_of_processes, cpus, batch, jobs, pc, pulled,
                   results, returned, failure, pool, processes, mapres, finished>>

\* A worker sends the result of its chunk, (True, outcomes) or
\* (False, exception); the result handler stores it in the MapResult.
WorkerPut(w) ==
    /\ pc = "starmap"
    /\ worker[w].state = "busy"
    /\ mapres' = MapResult_set(mapres, worker[w].chunk, worker[w].error = None,
                               worker[w].out, worker[w].error)
    /\ finished' = Append(finished, worker[w].chunk)
    /\ worker' = [worker EXCEPT ![w] = IdleWorker]
    /\ UNCHANGED <<call, args, problems, parallelize, number_of_processes, cpus, batch, jobs, pc, pulled,
                   results, returned, failure, pool, processes, taskqueue, copies, calls, exits>>

\* A with statement that leaves the pool open when starmap raised.
StarmapDone_leak ==
    /\ pc = "starmap"
    /\ mapres.number_left = 0
    /\ pool' = IF mapres.success THEN "closed" ELSE "open"
    /\ UNCHANGED processes
    /\ IF mapres.success
       THEN /\ pc' = "returned"
            /\ returned' = mapres.value
            /\ UNCHANGED failure
       ELSE /\ pc' = "raised"
            /\ failure' = mapres.error
            /\ UNCHANGED returned
    /\ UNCHANGED <<call, args, problems, parallelize, number_of_processes, cpus, batch, jobs, pulled, results,
                   taskqueue, worker, mapres, copies, calls, exits, finished>>

\* starmap returns the value list or raises the stored exception once every
\* chunk has reported; the with statement closes the pool; run() returns
\* tuple(results) or lets the exception through.
StarmapDone ==
    /\ pc = "starmap"
    /\ mapres.number_left = 0
    /\ pool' = "closed"
    /\ UNCHANGED processes
    /\ IF mapres.success
       THEN /\ pc' = "returned"
            /\ returned' = mapres.value
            /\ UNCHANGED failure
       ELSE /\ pc' = "raised"
            /\ failure' = mapres.error
            /\ UNCHANGED returned
    /\ UNCHANGED <<call, args, problems, parallelize, number_of_processes, cpus, batch, jobs, pulled, results,
                   taskqueue, worker, mapres, copies, calls, exits, finished>>

Next ==
    \/ Call
    \/ SeqIterate
    \/ SeqReturn
    \/ \E w \in Workers : WorkerRun(w)
    \/ \E w \in Workers : WorkerPut(w)
    \/ StarmapDone

Spec == Init /\ [][Next]_vars

\* The call of the constructor: the attributes are set and run() can be
\* called, or a TypeError is raised and there is no Multiprocessor.
Construct ==
    /\ pc = "new"
    /\ LET made == Multiprocessor_init(args)
       IN  IF made.ok
           THEN /\ pc' = "init"
                /\ parallelize' = (args.parallelize = "True")
                /\ number_of_processes' = IntValue(args.number_of_processes)
                /\ UNCHANGED problems
           ELSE /\ pc' = "invalid"
                /\ problems' = made.problems
                /\ UNCHANGED <<parallelize, number_of_processes>>
    /\ UNCHANGED <<call, args, cpus, batch, jobs, pulled, results, returned, failure, pool,
                   processes, taskqueue, worker, mapres, copies, calls, exits, finished>>

\* Any arguments, a job source of one job of the pool, before the constructor
\* is called.
InitNew ==
    /\ args \in [job_generator : JobGeneratorArgs, extractor_function : ExtractorArgs,
                 parallelize : ParallelizeArgs, number_of_processes : ProcessesArgs]
    /\ problems = {}
    /\ parallelize = "unset"
    /\ number_of_processes = "unset"
    /\ cpus = 1
    /\ batch \in Batches(1)
    /\ pc = "new"
    /\ NotRun

NextNew == Construct \/ Next

SpecNew == InitNew /\ [][NextNew]_vars

SpecJob == InitJob /\ [][Next]_vars

\* ------------------------------------------------------ Job.run, direct
\* The caller calls job.run() itself on the job of the source: the call
\* returns None or lets the failure of a task through.
CallJobRun ==
    /\ pc = "job"
    /\ LET ran == Job_run(jobs[1], <<>>)
       IN  /\ jobs' = [jobs EXCEPT ![1] = ran.job]
           /\ calls' = [calls EXCEPT ![1] = @ \o ran.calls]
           /\ exits' = [exits EXCEPT ![1] =
                           IF ran.raised = None THEN [how |-> "returned", value |-> None]
                           ELSE [how |-> "raised", value |-> ran.raised]]
           /\ failure' = ran.raised
           /\ pc' = IF ran.raised = None THEN "job_returned" ELSE "job_raised"
    /\ UNCHANGED <<call, args, problems, parallelize, number_of_processes, cpus, batch, pulled,
                   results, returned, pool, processes, taskqueue, worker, mapres, copies,
                   finished>>

\* One job, generated or of the pool, before the caller calls its run().
InitRun ==
    /\ parallelize = FALSE
    /\ number_of_processes = 0
    /\ cpus = 1
    /\ batch \in [1..1 -> JobShapes \cup JobPool]
    /\ args = [job_generator |-> "tuple", extractor_function |-> "function",
               parallelize |-> "False", number_of_processes |-> "0"]
    /\ problems = {}
    /\ pc = "job"
    /\ NotRun

NextRun == CallJobRun

SpecRun == InitRun /\ [][NextRun]_vars

\* ------------------------------------------------ _wrapper, called twice
\* The caller calls _wrapper on a job and then once more on the same object.
\* A callable may behave differently the second time: between the calls one
\* callable of the job at most changes what it does.
RerunCallables ==
    {Returns("Results1"), Returns("Results2"), Returns("int2"), Raises("ZeroDivisionError")}

RerunJobs ==
    {MakeJob(normal, classes, forgiveness) :
        normal \in UNION {[1..n -> RerunCallables] : n \in 1..MaxNormalTasks},
        classes \in {<<"ZeroDivisionError">>, <<"KeyError">>},
        forgiveness \in UNION {[1..n -> RerunCallables] : n \in 0..MaxForgivenessTasks}}

\* The job object with the behaviour of one callable replaced; the slots
\* of the tasks are kept.
Rebind(job, list, k, callable_) ==
    IF list = "normal"
    THEN [job EXCEPT !.tasks_to_do[k].callable_ = callable_]
    ELSE [job EXCEPT !.tasks_to_do_if_shit_happens[k].callable_ = callable_]

\* The first call of _wrapper(job) in the caller's process.
CallWrapper ==
    /\ pc = "wrap"
    /\ LET r == wrapper(jobs[1])
       IN  /\ jobs' = [jobs EXCEPT ![1] = r.job]
           /\ calls' = [calls EXCEPT ![1] = r.calls]
           /\ exits' = [exits EXCEPT ![1] = Exit(r)]
    /\ pc' = "wrapped"
    /\ UNCHANGED <<call, args, problems, parallelize, number_of_processes, cpus, batch, pulled,
                   results, returned, failure, pool, processes, taskqueue, worker, mapres,
                   copies, finished>>

\* The second call of _wrapper on the same object after one callable
\* changed its behaviour.
CallWrapperAgainChanged ==
    /\ pc = "wrapped"
    /\ \E list \in {"normal", "forgiveness"} :
       \E k \in 1..Len(IF list = "normal" THEN jobs[1].tasks_to_do
                        ELSE jobs[1].tasks_to_do_if_shit_happens) :
       \E callable_ \in RerunCallables :
          LET r == wrapper(Rebind(jobs[1], list, k, callable_))
          IN  /\ jobs' = [jobs EXCEPT ![1] = r.job]
              /\ calls' = [calls EXCEPT ![1] = @ \o <<<<"pass", 2>>>> \o r.calls]
              /\ exits' = [exits EXCEPT ![1] = Exit(r)]
    /\ pc' = "wrapped_again"
    /\ UNCHANGED <<call, args, problems, parallelize, number_of_processes, cpus, batch, pulled,
                   results, returned, failure, pool, processes, taskqueue, worker, mapres,
                   copies, finished>>

\* The second call of _wrapper on the same object, every callable behaving
\* as before.
CallWrapperAgain ==
    /\ pc = "wrapped"
    /\ LET r == wrapper(jobs[1])
       IN  /\ jobs' = [jobs EXCEPT ![1] = r.job]
           /\ calls' = [calls EXCEPT ![1] = @ \o <<<<"pass", 2>>>> \o r.calls]
           /\ exits' = [exits EXCEPT ![1] = Exit(r)]
    /\ pc' = "wrapped_again"
    /\ UNCHANGED <<call, args, problems, parallelize, number_of_processes, cpus, batch, pulled,
                   results, returned, failure, pool, processes, taskqueue, worker, mapres,
                   copies, finished>>

\* One job, before the caller calls _wrapper on it.
InitTwice ==
    /\ parallelize = FALSE
    /\ number_of_processes = 0
    /\ cpus = 1
    /\ batch \in [1..1 -> RerunJobs]
    /\ args = [job_generator |-> "tuple", extractor_function |-> "function",
               parallelize |-> "False", number_of_processes |-> "0"]
    /\ problems = {}
    /\ pc = "wrap"
    /\ NotRun

NextTwice == CallWrapper \/ CallWrapperAgain \/ CallWrapperAgainChanged

SpecTwice == InitTwice /\ [][NextTwice]_vars

\* ------------------------------------------- Job, declared exceptions
\* What a caller may pass to append_exception_to_catch: classes that are
\* exceptions and classes that are not, values that are not classes, and
\* containers of them; a dict stands for the iterables that are none of
\* list, tuple, set and frozenset.
ArgumentValues ==
    {ClassObject("KeyError"), ClassObject("ArithmeticError"), ClassObject("int"),
     InstanceOf("KeyError")}

ContainerTypes == {"list", "tuple", "set", "frozenset", "dict"}

Arguments ==
    {Single(v) : v \in ArgumentValues}
    \cup {Collection(t, items) :
             t \in ContainerTypes,
             items \in UNION {[1..n -> ArgumentValues] : n \in 0..MaxCollection}}

\* The caller calls job.append_exception_to_catch(exception).
CallAppendException ==
    /\ pc = "build"
    /\ \E exception \in Arguments :
          LET done == Job_append_exception_to_catch(jobs[1], exception)
          IN  /\ Len(done.job.exceptions_to_catch) <= MaxDeclared
              /\ jobs' = [jobs EXCEPT ![1] = done.job]
              /\ call' = [op |-> "append_exception_to_catch", arg |-> exception,
                          raised |-> done.raised,
                          before |-> jobs[1].exceptions_to_catch]
    /\ UNCHANGED <<args, problems, parallelize, number_of_processes, cpus, batch, pc, pulled,
                   results, returned, failure, pool, processes, taskqueue, worker, mapres,
                   copies, calls, exits, finished>>

\* The caller calls job.clear_exceptions().
CallClearExceptions ==
    /\ pc = "build"
    /\ jobs' = [jobs EXCEPT ![1] = clear_exceptions(jobs[1])]
    /\ call' = [op |-> "clear_exceptions", arg |-> Collection("tuple", <<>>),
                raised |-> None, before |-> jobs[1].exceptions_to_catch]
    /\ UNCHANGED <<args, problems, parallelize, number_of_processes, cpus, batch, pc, pulled,
                   results, returned, failure, pool, processes, taskqueue, worker, mapres,
                   copies, calls, exits, finished>>

\* A new Job, before any exception is declared.
InitBuild ==
    /\ parallelize = FALSE
    /\ number_of_processes = 0
    /\ cpus = 1
    /\ batch = <<NewJob>>
    /\ args = [job_generator |-> "tuple", extractor_function |-> "function",
               parallelize |-> "False", number_of_processes |-> "0"]
    /\ problems = {}
    /\ pc = "build"
    /\ NotRun

NextBuild == CallAppendException \/ CallClearExceptions

SpecBuild == InitBuild /\ [][NextBuild]_vars

TypeOK ==
    /\ pc \in {"new", "invalid", "init", "loop", "starmap", "returned", "raised",
              "job", "job_returned", "job_raised", "build",
              "wrap", "wrapped", "wrapped_again"}
    /\ pulled \in 0..Len(jobs)
    /\ pool \in {"none", "open", "closed"}
    /\ Len(jobs) = Len(batch)

\* ===================================================================
\* Properties
\* ===================================================================
Done == pc \in {"returned", "raised"}

JobIndexes == 1..Len(batch)

\* No callable of the job raises.
AllTasksSucceed(job) ==
    /\ \A k \in 1..Len(job.tasks_to_do) : job.tasks_to_do[k].callable_.act = "return"
    /\ \A k \in 1..Len(job.tasks_to_do_if_shit_happens) :
          job.tasks_to_do_if_shit_happens[k].callable_.act = "return"

\* What the for loop of the sequential branch collects for a job source.
SequentialOutcomes(source) == [i \in 1..Len(source) |-> wrapper(source[i]).outcome]

\* C1: for a job source whose tasks all succeed, run() returns in either
\* mode and for every number_of_processes, and what it returns is the
\* sequence of the jobs' outcomes in source order (hence the same sequence in
\* both modes).
C1_SameOutcomesInBothModes ==
    (Done /\ \A i \in JobIndexes : AllTasksSucceed(batch[i]))
        => /\ pc = "returned"
           /\ returned = SequentialOutcomes(batch)

\* C2: when a parallel run() returns, the i-th element of the returned
\* sequence is what _wrapper returned for the i-th job of the job source,
\* whatever the order in which the workers reported.
C2_OutcomeOrderIsSourceOrder ==
    (parallelize /\ pc = "returned")
        => /\ Len(returned) = Len(batch)
           /\ \A i \in JobIndexes :
                 /\ exits[i].how = "returned"
                 /\ returned[i] = exits[i].value

\* A parallel run() returned two different outcomes and the first job was
\* not the first to report.
C2_Witness ==
    /\ parallelize
    /\ pc = "returned"
    /\ Len(returned) >= 2
    /\ returned[1] # returned[2]
    /\ finished[1] # 1

\* ------------------------------------------------- one job under _wrapper
Range(seq) == {seq[i] : i \in DOMAIN seq}

Minimum(set) == CHOOSE x \in set : \A y \in set : x <= y

\* The Job object the call of _wrapper for job j worked on: the caller's
\* object in the for loop, the worker's copy in the pool.
JobObject(j) == IF parallelize THEN copies[j] ELSE jobs[j]

\* _wrapper was called for job j, normal task k was invoked and raised.
NormalTaskRaised(j, k) ==
    /\ exits[j].how # "pending"
    /\ k \in 1..Len(batch[j].tasks_to_do)
    /\ <<"normal", k>> \in Range(calls[j])
    /\ batch[j].tasks_to_do[k].callable_.act = "raise"

RaisedClass(j, k) == batch[j].tasks_to_do[k].callable_.val

\* The class is one of the declared classes of the job or derives from one.
Declared(job, cls) ==
    \E i \in 1..Len(job.exceptions_to_catch) : issubclass(cls, job.exceptions_to_catch[i])

\* The class is in the effective catch set of the job.
InCatchSet(job, cls) == Len(job.exceptions_to_catch) = 0 \/ Declared(job, cls)

NormalCalls(k)      == [i \in 1..k |-> <<"normal", i>>]
ForgivenessCalls(n) == [i \in 1..n |-> <<"forgiveness", i>>]

\* The number of forgiveness tasks up to and including the first one whose
\* callable raises; all of them when none raises.
ForgivenessReach(job) ==
    LET tasks   == job.tasks_to_do_if_shit_happens
        raising == {k \in 1..Len(tasks) : tasks[k].callable_.act = "raise"}
    IN  IF raising = {} THEN Len(tasks) ELSE Minimum(raising)

ForgivenessRaises(job) ==
    \E k \in 1..Len(job.tasks_to_do_if_shit_happens) :
        job.tasks_to_do_if_shit_happens[k].callable_.act = "raise"

\* Normal tasks after the k-th were not invoked and their result slots are
\* empty.
LaterNormalTasksSkipped(j, k) ==
    \A m \in (k + 1)..Len(batch[j].tasks_to_do) :
        /\ <<"normal", m>> \notin Range(calls[j])
        /\ JobObject(j).tasks_to_do[m].return_value = None

\* C3 as stated: when normal task k raises a failure of the catch set, the
\* normal tasks after k are never invoked, their result slots stay empty, and
\* every forgiveness task is invoked exactly once, in list order, after
\* task k.
C3_SkipThenEveryForgivenessTask ==
    \A j \in JobIndexes : \A k \in 1..Len(batch[j].tasks_to_do) :
        (NormalTaskRaised(j, k) /\ InCatchSet(batch[j], RaisedClass(j, k)))
            => /\ LaterNormalTasksSkipped(j, k)
               /\ calls[j] = NormalCalls(k)
                    \o ForgivenessCalls(Len(batch[j].tasks_to_do_if_shit_happens))

\* C3 amended: as C3, but the forgiveness tasks invoked are those up to and
\* including the first forgiveness task that raises (all of them when none
\* raises); the forgiveness tasks after it are not invoked.
C3_SkipThenForgivenessUntilFailure ==
    \A j \in JobIndexes : \A k \in 1..Len(batch[j].tasks_to_do) :
        (NormalTaskRaised(j, k) /\ InCatchSet(batch[j], RaisedClass(j, k)))
            => /\ LaterNormalTasksSkipped(j, k)
               /\ calls[j] = NormalCalls(k) \o ForgivenessCalls(ForgivenessReach(batch[j]))

\* The first of two normal tasks raised a declared failure and both
\* forgiveness tasks were invoked.
C3_Witness ==
    /\ NormalTaskRaised(1, 1)
    /\ Len(batch[1].tasks_to_do) = 2
    /\ Len(batch[1].exceptions_to_catch) > 0
    /\ Len(batch[1].tasks_to_do_if_shit_happens) = 2
    /\ <<"forgiveness", 2>> \in Range(calls[1])
    /\ exits[1].how = "returned"

\* C4: when a normal task raises a failure that is not in the non-empty
\* declared catch set, no forgiveness task is invoked, ask_forgiveness does
\* not store the failure on the task, the call of _wrapper yields no outcome
\* and the same failure leaves it.
C4_UndeclaredFailurePropagates ==
    \A j \in JobIndexes : \A k \in 1..Len(batch[j].tasks_to_do) :
        (/\ NormalTaskRaised(j, k)
         /\ Len(batch[j].exceptions_to_catch) > 0
         /\ ~Declared(batch[j], RaisedClass(j, k)))
            => /\ \A f \in 1..Len(batch[j].tasks_to_do_if_shit_happens) :
                     <<"forgiveness", f>> \notin Range(calls[j])
               /\ JobObject(j).tasks_to_do[k].exception_raised = None
               /\ exits[j] = [how |-> "raised", value |-> RaisedClass(j, k)]
               /\ ~parallelize => (pc = "raised" /\ failure = RaisedClass(j, k))

\* A job with a forgiveness task and a non-empty catch set raised a failure
\* outside that set.
C4_Witness ==
    /\ NormalTaskRaised(1, 2)
    /\ Len(batch[1].exceptions_to_catch) > 0
    /\ ~Declared(batch[1], RaisedClass(1, 2))
    /\ Len(batch[1].tasks_to_do_if_shit_happens) > 0
    /\ exits[1].how = "raised"

\* ------------------------------------------------------- fatal failures
\* C5: in the sequential branch, once the _wrapper call of job j raised, no
\* callable of a later job is ever invoked, run() does not return (the
\* outcomes collected for the jobs before j are lost with the local list) and
\* the failure of job j is the one that leaves run().
C5_SequentialFatalAbortsBatch ==
    \A j \in JobIndexes :
        (~parallelize /\ exits[j].how = "raised")
            => /\ pc = "raised"
               /\ failure = exits[j].value
               /\ returned = <<>>
               /\ \A m \in (j + 1)..Len(batch) :
                     calls[m] = <<>> /\ exits[m] = Pending /\ jobs[m] = batch[m]

\* The second of three jobs failed fatally after the first job's outcome had
\* been collected.
C5_Witness ==
    /\ ~parallelize
    /\ Len(batch) = 3
    /\ exits[1].how = "returned"
    /\ Len(results) = 1
    /\ exits[2].how = "raised"
    /\ pc = "raised"

\* C6: in the parallel branch, once the _wrapper call of some job raised,
\* run() never returns an outcome sequence; when it ends it raises the failure
\* of a job whose _wrapper call raised.
C6_ParallelFatalNeverReturns ==
    (parallelize /\ \E j \in JobIndexes : exits[j].how = "raised")
        => /\ pc \in {"starmap", "raised"}
           /\ returned = <<>>
           /\ pc = "raised" =>
                 \E j \in JobIndexes : exits[j].how = "raised" /\ failure = exits[j].value

\* A parallel run() raised although the outcome of the first job had already
\* been stored when the failing job reported.
C6_Witness ==
    /\ parallelize
    /\ pc = "raised"
    /\ Len(batch) >= 2
    /\ exits[1].how = "returned"
    /\ exits[1].value # None
    /\ mapres.value[1] = exits[1].value
    /\ finished[1] = 1

\* The first job of the source whose _wrapper call raises, 0 if there is none.
FirstFatal(source) ==
    LET fatal == {j \in 1..Len(source) : wrapper(source[j]).raised # None}
    IN  IF fatal = {} THEN 0 ELSE Minimum(fatal)

\* C7: the result of run() is the same for both values of parallelize: the
\* outcomes of all jobs in source order when no job fails fatally, and
\* otherwise the failure of the first fatally failing job of the source, which
\* is what the for loop lets through.
C7_SameResultInBothModes ==
    Done =>
        IF FirstFatal(batch) = 0
        THEN pc = "returned" /\ returned = SequentialOutcomes(batch)
        ELSE pc = "raised" /\ failure = wrapper(batch[FirstFatal(batch)]).raised

\* ------------------------------------------------ catch-all and outcomes
\* C8 as stated: a job without registered classes whose normal task raises a
\* failure of any class has all its forgiveness tasks invoked and its
\* _wrapper call returns an outcome.
C8_CatchAllAlwaysReturns ==
    \A j \in JobIndexes : \A k \in 1..Len(batch[j].tasks_to_do) :
        (NormalTaskRaised(j, k) /\ Len(batch[j].exceptions_to_catch) = 0)
            => /\ \A f \in 1..Len(batch[j].tasks_to_do_if_shit_happens) :
                     <<"forgiveness", f>> \in Range(calls[j])
               /\ exits[j].how = "returned"

\* C8 amended: for a job without registered classes whose normal task raises
\* a failure of any class, _wrapper calls ask_forgiveness: the failure is
\* stored on the task and the forgiveness tasks are invoked in order up to the
\* first one that raises.  When no forgiveness task raises the call returns an
\* outcome; otherwise the failure of that forgiveness task leaves the call.
C8_CatchAllRecovers ==
    \A j \in JobIndexes : \A k \in 1..Len(batch[j].tasks_to_do) :
        (NormalTaskRaised(j, k) /\ Len(batch[j].exceptions_to_catch) = 0)
            => LET job   == batch[j]
                   reach == ForgivenessReach(job)
               IN  /\ JobObject(j).tasks_to_do[k].exception_raised = RaisedClass(j, k)
                   /\ calls[j] = NormalCalls(k) \o ForgivenessCalls(reach)
                   /\ IF ForgivenessRaises(job)
                      THEN exits[j] =
                             [how |-> "raised",
                              value |-> job.tasks_to_do_if_shit_happens[reach].callable_.val]
                      ELSE exits[j].how = "returned"

\* A job without registered classes recovered from a KeyError through two
\* forgiveness tasks.
C8_Witness ==
    /\ NormalTaskRaised(1, 1)
    /\ RaisedClass(1, 1) = "KeyError"
    /\ Len(batch[1].exceptions_to_catch) = 0
    /\ Len(batch[1].tasks_to_do_if_shit_happens) = 2
    /\ exits[1].how = "returned"

\* The return values stored on the tasks of a job, normal tasks first.
StoredReturnValues(job) ==
    [i \in 1..(Len(job.tasks_to_do) + Len(job.tasks_to_do_if_shit_happens)) |->
        IF i <= Len(job.tasks_to_do)
        THEN job.tasks_to_do[i].return_value
        ELSE job.tasks_to_do_if_shit_happens[i - Len(job.tasks_to_do)].return_value]

ResultsPositions(job) ==
    {i \in DOMAIN StoredReturnValues(job) : StoredReturnValues(job)[i] \in ResultsValues}

PassesComplete(job) ==
    LET raising == {k \in 1..Len(job.tasks_to_do) : job.tasks_to_do[k].callable_.act = "raise"}
    IN  \/ raising = {}
        \/ /\ InCatchSet(job, job.tasks_to_do[Minimum(raising)].callable_.val)
           /\ ~ForgivenessRaises(job)

C11_ForgivenessFailurePropagates ==
    \A j \in JobIndexes : \A k \in 1..Len(batch[j].tasks_to_do) :
        (/\ NormalTaskRaised(j, k)
         /\ InCatchSet(batch[j], RaisedClass(j, k))
         /\ ForgivenessRaises(batch[j]))
            => LET tasks == batch[j].tasks_to_do_if_shit_happens
                   reach == ForgivenessReach(batch[j])
               IN  /\ exits[j] = [how |-> "raised", value |-> tasks[reach].callable_.val]
                   /\ \A f \in (reach + 1)..Len(tasks) :
                         /\ <<"forgiveness", f>> \notin Range(calls[j])
                         /\ JobObject(j).tasks_to_do_if_shit_happens[f].return_value = None
                   /\ ~parallelize =>
                         (pc = "raised" /\ failure = tasks[reach].callable_.val /\ results = <<>>)

\* The first of two forgiveness tasks raised a ZeroDivisionError although the
\* job declares ZeroDivisionError.
C11_Witness ==
    /\ NormalTaskRaised(1, 1)
    /\ batch[1].exceptions_to_catch = <<"ZeroDivisionError">>
    /\ RaisedClass(1, 1) = "ZeroDivisionError"
    /\ Len(batch[1].tasks_to_do_if_shit_happens) = 2
    /\ batch[1].tasks_to_do_if_shit_happens[1].callable_ = Raises("ZeroDivisionError")
    /\ exits[1] = [how |-> "raised", value |-> "ZeroDivisionError"]


\* The number of workers the caller asked for: the count when it is
\* positive, the number of CPUs of the machine otherwise.
RequestedProcesses == IF number_of_processes > 0 THEN number_of_processes ELSE cpus

\* C12: in parallel mode the pool is created with the requested number of
\* workers when that number is positive and with the number of CPUs when it
\* is zero or negative, and for every integer count the batch is executed:
\* run() ends by returning unless a job failed fatally.
C12_PoolSizeFollowsTheCount ==
    parallelize =>
        /\ pool # "none" => processes = RequestedProcesses
        /\ (Done /\ \A j \in JobIndexes : wrapper(batch[j]).raised = None)
              => (pc = "returned" /\ pool = "closed" /\ processes = RequestedProcesses)

\* The arguments the constructor accepts, from the four conditions of the
\* claim.
IterableSources == {"tuple", "list", "generator"}
CallableExtractors == {"function", "class"}
BooleanFlags == {"True", "False"}
IntegerCounts == {"-1", "0", "1", "True"}

\* The lines that must be reported for the arguments.
ExpectedProblems ==
    {ProblemLine("job_generator", None) : x \in {args.job_generator} \ IterableSources}
    \cup {ProblemLine("extractor_function", None) :
             x \in {args.extractor_function} \ CallableExtractors}
    \cup {ProblemLine("parallelize", TypeName(x)) : x \in {args.parallelize} \ BooleanFlags}
    \cup {ProblemLine("number_of_processes", TypeName(x)) :
             x \in {args.number_of_processes} \ IntegerCounts}

\* C13: the constructor succeeds exactly when the job source is iterable,
\* the extractor callable, the flag a boolean and the count an integer;
\* otherwise it raises one TypeError that has a line for each violated
\* constraint, and no job is run.
C13_ConstructorValidatesArguments ==
    pc # "new" =>
        IF ExpectedProblems = {}
        THEN /\ pc # "invalid"
             /\ problems = {}
             /\ parallelize = (args.parallelize = "True")
             /\ number_of_processes \in -1..1
        ELSE /\ pc = "invalid"
             /\ problems = ExpectedProblems
             /\ parallelize = "unset" /\ number_of_processes = "unset"
             /\ NotRun

\* Two arguments are wrong and the TypeError names both.
C13_Witness ==
    /\ pc = "invalid"
    /\ args.job_generator = "int"
    /\ args.parallelize = "1"
    /\ args.extractor_function = "function"
    /\ args.number_of_processes = "True"
    /\ Cardinality(problems) = 2


\* No job of the batch fails fatally: in every job, the normal tasks all
\* succeed, or the first failure is in the catch set and the forgiveness
\* tasks all succeed.
NoFatalJob == \A j \in JobIndexes : PassesComplete(batch[j])

\* C14: run() returns only after the wrapper of every job pulled from the
\* source ran to completion and its outcome was collected; and when no job
\* fails fatally, run() ends by returning, with exactly one outcome per job.
C14_ReturnsWhenEveryJobIsCollected ==
    /\ pc = "returned" =>
          /\ pulled = Len(batch)
          /\ Len(returned) = Len(batch)
          /\ \A j \in JobIndexes :
                exits[j].how = "returned" /\ returned[j] = exits[j].value
          /\ parallelize =>
                /\ taskqueue = <<>>
                /\ mapres.number_left = 0
                /\ \A w \in Workers : worker[w].state = "idle"
    /\ (NoFatalJob /\ pc \notin {"init", "loop", "starmap"}) =>
          (pc = "returned" /\ Len(returned) = Len(batch))

\* Job j was run by _wrapper, one of its normal tasks raised a failure of the
\* catch set and its forgiveness tasks all succeed.
Recovered(j) ==
    /\ ~ForgivenessRaises(batch[j])
    /\ \E k \in 1..Len(batch[j].tasks_to_do) :
          NormalTaskRaised(j, k) /\ InCatchSet(batch[j], RaisedClass(j, k))

\* C15 as stated: once job j recovered from a declared failure, run() ends
\* with every later job executed and with an outcome sequence that has one
\* element for every job.
C15_RecoveryThenWholeBatch ==
    \A j \in JobIndexes :
        (Recovered(j) /\ Done) =>
            /\ \A i \in (j + 1)..Len(batch) : exits[i].how # "pending"
            /\ pc = "returned"
            /\ Len(returned) = Len(batch)

\* C15: a declared failure of job j does not stop the batch.  The call of
\* _wrapper for j returns, the sequential loop goes on, and when run() ended
\* the job after j was executed; when no job fails fatally, run() returns a
\* sequence with one element for every job, the one of j at position j.
C15_RecoveryConfinedToJob ==
    \A j \in JobIndexes :
        Recovered(j) =>
            /\ exits[j].how = "returned"
            /\ (~parallelize /\ pulled = j) =>
                  (pc \in {"loop", "returned"} /\ failure = None /\ Len(results) = j)
            /\ Done =>
                  /\ j < Len(batch) => exits[j + 1].how # "pending"
                  /\ NoFatalJob =>
                        /\ pc = "returned"
                        /\ Len(returned) = Len(batch)
                        /\ returned[j] = exits[j].value

\* The first job recovered, the jobs after it were executed and run()
\* returned one outcome per job.
C15_Witness ==
    /\ Len(batch) = 3
    /\ Recovered(1)
    /\ pc = "returned"
    /\ Len(returned) = 3
    /\ exits[2].how = "returned" /\ exits[3].how = "returned"


\* The direct call of Job.run is over.
JobRunDone == pc \in {"job_returned", "job_raised"}

\* Normal task k of the job is the first whose callable raises.
FirstRaising(job, k) ==
    /\ k \in 1..Len(job.tasks_to_do)
    /\ job.tasks_to_do[k].callable_.act = "raise"
    /\ \A i \in 1..(k - 1) : job.tasks_to_do[i].callable_.act = "return"

\* C16: Job.run() executes the normal tasks in the order they were added
\* and, when a task raises an exception the job is set to handle, triggers
\* the forgiveness tasks itself and returns normally: the raising task and
\* the tasks after it have return value None and the return values of the
\* forgiveness tasks are stored.
C16_RunTriggersFallback ==
    JobRunDone =>
        \A k \in 1..Len(batch[1].tasks_to_do) :
            (FirstRaising(batch[1], k)
             /\ Declared(batch[1], batch[1].tasks_to_do[k].callable_.val)
             /\ ~ForgivenessRaises(batch[1]))
                => /\ pc = "job_returned"
                   /\ calls[1] = NormalCalls(k)
                                 \o ForgivenessCalls(Len(batch[1].tasks_to_do_if_shit_happens))
                   /\ \A m \in k..Len(batch[1].tasks_to_do) :
                         jobs[1].tasks_to_do[m].return_value = None
                   /\ \A f \in 1..Len(batch[1].tasks_to_do_if_shit_happens) :
                         jobs[1].tasks_to_do_if_shit_happens[f].return_value
                            = batch[1].tasks_to_do_if_shit_happens[f].callable_.val

C17_SingleJobRunsInCaller ==
    Len(batch) = 1 =>
        /\ pool = "none"
        /\ processes = 0
        /\ copies = <<>>
        /\ exits[1].how # "pending" => jobs[1] = wrapper(batch[1]).job

\* The failure slots of a task list.
FailureSlots(tasks) == [i \in 1..Len(tasks) |-> tasks[i].exception_raised]

\* C19: after the wrapper recovered job j from a failure of the catch set
\* raised by normal task k, the failure slot of task k holds that failure and
\* its result slot is empty, and the failure slot of every other normal task
\* and of every forgiveness task is empty; when no task of the job raised,
\* every failure slot of the job is empty.
C19_FailureSlotOfTheRaisingTask ==
    \A j \in JobIndexes :
        /\ \A k \in 1..Len(batch[j].tasks_to_do) :
              (NormalTaskRaised(j, k)
               /\ InCatchSet(batch[j], RaisedClass(j, k))
               /\ ~ForgivenessRaises(batch[j]))
                  => LET job == JobObject(j)
                     IN  /\ exits[j].how = "returned"
                         /\ job.tasks_to_do[k].exception_raised = RaisedClass(j, k)
                         /\ job.tasks_to_do[k].return_value = None
                         /\ \A m \in 1..Len(job.tasks_to_do) :
                               m # k => job.tasks_to_do[m].exception_raised = None
                         /\ \A f \in 1..Len(job.tasks_to_do_if_shit_happens) :
                               job.tasks_to_do_if_shit_happens[f].exception_raised = None
        /\ (exits[j].how # "pending" /\ AllTasksSucceed(batch[j]))
              => LET job == JobObject(j)
                 IN  /\ \A m \in 1..Len(job.tasks_to_do) :
                           FailureSlots(job.tasks_to_do)[m] = None
                     /\ \A f \in 1..Len(job.tasks_to_do_if_shit_happens) :
                           FailureSlots(job.tasks_to_do_if_shit_happens)[f] = None

\* The first of two normal tasks raised a KeyError caught as a LookupError
\* and the job recovered: the slot of the first task holds the KeyError.
C19_Witness ==
    /\ Len(batch[1].tasks_to_do) = 2
    /\ NormalTaskRaised(1, 1)
    /\ RaisedClass(1, 1) = "KeyError"
    /\ batch[1].exceptions_to_catch = <<"LookupError">>
    /\ Len(batch[1].tasks_to_do_if_shit_happens) = 1
    /\ exits[1].how = "returned"
    /\ FailureSlots(JobObject(1).tasks_to_do) = <<"KeyError", None>>

\* The position of a call in the list of the calls of job j, 0 when absent.
CallPosition(j, entry) ==
    LET at == {i \in 1..Len(calls[j]) : calls[j][i] = entry}
    IN  IF at = {} THEN 0 ELSE Minimum(at)

\* C20: a forgiveness task of a job is executed only after a normal task of
\* that job raised a failure of the job's catch set in the same call of the
\* wrapper; when every normal task of the job completed without raising, no
\* forgiveness task of the job was executed and their result slots are
\* empty.
C20_ForgivenessOnlyAfterCaughtFailure ==
    \A j \in JobIndexes :
        /\ \A f \in 1..Len(batch[j].tasks_to_do_if_shit_happens) :
              <<"forgiveness", f>> \in Range(calls[j])
                 => \E k \in 1..Len(batch[j].tasks_to_do) :
                       /\ NormalTaskRaised(j, k)
                       /\ InCatchSet(batch[j], RaisedClass(j, k))
                       /\ CallPosition(j, <<"normal", k>>) < CallPosition(j, <<"forgiveness", f>>)
        /\ (/\ exits[j].how # "pending"
            /\ \A k \in 1..Len(batch[j].tasks_to_do) :
                  batch[j].tasks_to_do[k].callable_.act = "return")
              => /\ calls[j] = NormalCalls(Len(batch[j].tasks_to_do))
                 /\ \A f \in 1..Len(batch[j].tasks_to_do_if_shit_happens) :
                       JobObject(j).tasks_to_do_if_shit_happens[f].return_value = None

\* The second normal task raised a ZeroDivisionError caught as an
\* ArithmeticError, and the two forgiveness tasks were executed after it.
C20_Witness ==
    /\ Len(batch[1].tasks_to_do) = 2
    /\ batch[1].exceptions_to_catch = <<"KeyError", "ArithmeticError">>
    /\ NormalTaskRaised(1, 2)
    /\ RaisedClass(1, 2) = "ZeroDivisionError"
    /\ calls[1] = NormalCalls(2) \o ForgivenessCalls(2)
    /\ exits[1].how = "returned"


\* The workers that hold a chunk: they took it from the task queue and have
\* not yet reported its result.
BusyWorkers == {w \in Workers : worker[w].state = "busy"}

\* How many times _wrapper was started on job j: every job of the job pool
\* has a first normal task, which each call of _wrapper invokes first.
Starts(j) == Cardinality({i \in 1..Len(calls[j]) : calls[j][i] = <<"normal", 1>>})

\* C21: in parallel mode the wrappers in execution are never more than the
\* requested number of workers, a worker executes the wrappers of one chunk
\* only and no two workers hold the same chunk, and when run() is over the
\* wrapper of every job was started exactly once.
C21_BoundedWorkersEachJobOnce ==
    parallelize =>
        /\ Cardinality(BusyWorkers) <= RequestedProcesses
        /\ \A v, w \in BusyWorkers : worker[v].chunk = worker[w].chunk => v = w
        /\ \A j \in JobIndexes : Starts(j) <= 1
        /\ Done => \A j \in JobIndexes : Starts(j) = 1


C23_SourceTraversedOnceInOrder ==
    /\ pulled \in 0..Len(batch)
    /\ \A j \in JobIndexes :
          /\ Starts(j) <= 1
          /\ Starts(j) = 1 => j <= pulled
          /\ (Done /\ j <= pulled) => Starts(j) = 1
    /\ ~parallelize =>
          \A j \in JobIndexes :
              /\ j <= pulled <=> exits[j].how # "pending"
              /\ (j <= pulled /\ j > 1) => exits[j - 1].how = "returned"
    /\ parallelize =>
          \A j \in JobIndexes : exits[j].how # "pending" => pulled = Len(batch)


\* A failure kind: a class derived from BaseException.
FailureKind(value) == value.isclass /\ value.name \in ExceptionClasses

\* The argument is a failure kind or a list, tuple, set or frozenset of
\* failure kinds.
Acceptable(exception) ==
    IF exception.type \in {"list", "tuple", "set", "frozenset"}
    THEN \A i \in 1..Len(exception.items) : FailureKind(exception.items[i])
    ELSE exception.type = "single" /\ FailureKind(exception.items[1])

\* The declared exceptions of the job being built.
DeclaredList == jobs[1].exceptions_to_catch

\* C24 as stated: after any sequence of append_exception_to_catch and
\* clear_exceptions calls the declared exceptions are failure kinds only, and
\* a call whose argument is not a failure kind, or is a collection with an
\* element that is not one, raises an error and leaves the list unchanged.
C24_OnlyFailureKindsElseError ==
    /\ \A i \in 1..Len(DeclaredList) : DeclaredList[i] \in ExceptionClasses
    /\ (call.op = "append_exception_to_catch" /\ ~Acceptable(call.arg)) =>
          (call.raised # None /\ DeclaredList = call.before)

\* C24: the declared exceptions are failure kinds only.  A call whose
\* argument is not acceptable leaves the list unchanged; it raises a
\* TypeError, except for a single class that is not a failure kind, which is
\* ignored without an error.  An acceptable argument is appended and
\* clear_exceptions empties the list.
C24_OnlyFailureKindsStored ==
    /\ \A i \in 1..Len(DeclaredList) : DeclaredList[i] \in ExceptionClasses
    /\ (call.op = "append_exception_to_catch" /\ ~Acceptable(call.arg)) =>
          /\ DeclaredList = call.before
          /\ call.raised =
                IF call.arg.type = "single" /\ call.arg.items[1].isclass
                THEN None ELSE "TypeError"
    /\ (call.op = "append_exception_to_catch" /\ Acceptable(call.arg)) =>
          /\ call.raised = None
          /\ DeclaredList = call.before \o ClassNames(call.arg.items)
    /\ call.op = "clear_exceptions" => (DeclaredList = <<>> /\ call.raised = None)

\* After KeyError was declared, a list holding a failure kind and the class
\* int was refused with a TypeError and KeyError is still the only
\* declared exception.
C24_Witness ==
    /\ call.op = "append_exception_to_catch"
    /\ call.arg = Collection("list", <<ClassObject("ArithmeticError"), ClassObject("int")>>)
    /\ call.raised = "TypeError"
    /\ call.before = <<"KeyError">>
    /\ DeclaredList = <<"KeyError">>


\* The slots of the caller's Job object j hold what the calls recorded for
\* the job stored: the value of every callable that was invoked and
\* returned, the failure of the normal task that raised when it was caught.
PopulatedInPlace(j) ==
    /\ \A k \in 1..Len(batch[j].tasks_to_do) :
          LET callable_ == batch[j].tasks_to_do[k].callable_
              invoked   == <<"normal", k>> \in Range(calls[j])
          IN  /\ jobs[j].tasks_to_do[k].return_value =
                    IF invoked /\ callable_.act = "return" THEN callable_.val ELSE None
              /\ jobs[j].tasks_to_do[k].exception_raised =
                    IF invoked /\ callable_.act = "raise" /\ InCatchSet(batch[j], callable_.val)
                    THEN callable_.val ELSE None
    /\ \A f \in 1..Len(batch[j].tasks_to_do_if_shit_happens) :
          LET callable_ == batch[j].tasks_to_do_if_shit_happens[f].callable_
              invoked   == <<"forgiveness", f>> \in Range(calls[j])
          IN  jobs[j].tasks_to_do_if_shit_happens[f].return_value =
                 IF invoked /\ callable_.act = "return" THEN callable_.val ELSE None

SecondPassMark == CallPosition(1, <<"pass", 2>>)

FirstPassCalls  == {calls[1][i] : i \in 1..(SecondPassMark - 1)}
SecondPassCalls == {calls[1][i] : i \in (SecondPassMark + 1)..Len(calls[1])}

\* What the first pass left in the result slot and in the failure slot of a
\* task, from what its callable did in the first pass.
FirstPassResult(entry, callable_) ==
    IF entry \in FirstPassCalls /\ callable_.act = "return" THEN callable_.val ELSE None

FirstPassFailure(entry, callable_) ==
    IF /\ entry \in FirstPassCalls
       /\ entry[1] = "normal"
       /\ callable_.act = "raise"
       /\ InCatchSet(batch[1], callable_.val)
    THEN callable_.val ELSE None

\* A normal task raised a failure of the catch set in the second pass.
FailedAgain ==
    \E k \in 1..Len(jobs[1].tasks_to_do) :
        /\ <<"normal", k>> \in SecondPassCalls
        /\ jobs[1].tasks_to_do[k].callable_.act = "raise"
        /\ InCatchSet(batch[1], jobs[1].tasks_to_do[k].callable_.val)

====
